---- MODULE Spec2Model ----
(***************************************************************************)
(* A model of CPP_INTRIN (src/intrinsics.hpp): hand-written versions of a  *)
(* few x86-64 SIMD intrinsics, with compile-time dispatch to the native    *)
(* intrinsics when the matching macro is defined.                          *)
(*                                                                         *)
(* A behaviour is one test body: the build (the set of defined macros) is  *)
(* fixed at Init, the caller draws operands and calls one function, and    *)
(* the call either returns (pc = "returned", c holds the result) or ends   *)
(* in a failed assert (pc = "aborted").  Or the body is the one of         *)
(* get_randomness (pc = "rand"): two threads seed an accumulator pair each *)
(* and call get_randomness on it, their loads and stores interleaved.      *)
(*                                                                         *)
(* Arrays are functions over 0..n-1.  An int16_t or int8_t lane is the     *)
(* integer it denotes; an int64_t lane is the tuple of its four 16-bit     *)
(* words, least significant first; a vector register is carried as its     *)
(* unsigned lane patterns.  A 32-bit int or unsigned is the integer with   *)
(* the same two's-complement bit pattern.                                  *)
(***************************************************************************)
EXTENDS Integers, Sequences, FiniteSets

VARIABLES defined, pc, op, a, b, imm, c, gstate, seed, tpc, tmp, entry, outs

vars == <<defined, pc, op, a, b, imm, c, gstate, seed, tpc, tmp, entry, outs>>

----------------------------------------------------------------------------
(* Bounds of the model: which operands the caller draws. *)

\* operand vectors start at table positions 0..MaxSeed
MaxSeed == 7
\* and step through the table with strides 0..MaxStride
MaxStride == 1
\* shift amounts 0..MaxShift are instantiated
MaxShift == 17
\* number of distinct leftovers an uninitialised 16-byte block may hold
MaxGarbage == 1
\* calls of get_randomness each thread makes
MaxCalls == 2

\* the contents tried for the 16-byte half that two calls do not share: 0..MaxOther
MaxOther == 2

----------------------------------------------------------------------------
(* Integer conversions and bitwise operators of C++ on two's complement. *)

\* conversion to int16_t: keep the low 16 bits, read them as signed
ToInt16(x) == (((x % 65536) + 32768) % 65536) - 32768

\* conversion to uint16_t: keep the low 16 bits
ToUint16(x) == x % 65536

\* conversion to int8_t: keep the low 8 bits, read them as signed
ToInt8(x) == (((x % 256) + 128) % 256) - 128

\* conversion to uint8_t
ToUint8(x) == x % 256

\* x & y on int (sign-extended, so -1 is all ones)
RECURSIVE BitAnd(_, _)
BitAnd(x, y) ==
  IF x = 0 \/ y = 0 THEN 0
  ELSE IF x = -1 THEN y
  ELSE IF y = -1 THEN x
  ELSE (x % 2) * (y % 2) + 2 * BitAnd(x \div 2, y \div 2)

\* x ^ y on int
RECURSIVE BitXor(_, _)
BitXor(x, y) ==
  IF x = y THEN 0
  ELSE IF x = 0 THEN y
  ELSE IF y = 0 THEN x
  ELSE (((x % 2) + (y % 2)) % 2) + 2 * BitXor(x \div 2, y \div 2)

\* x | y on non-negative patterns
RECURSIVE BitOr(_, _)
BitOr(x, y) ==
  IF x = 0 THEN y
  ELSE IF y = 0 THEN x
  ELSE (IF (x % 2) + (y % 2) > 0 THEN 1 ELSE 0) + 2 * BitOr(x \div 2, y \div 2)

\* ~x on a 32-bit pattern
BitNot(x) == -x - 1

\* x >> n on int: gcc shifts in copies of the sign bit
RECURSIVE ShiftRight(_, _)
ShiftRight(x, n) == IF n = 0 THEN x ELSE ShiftRight(x \div 2, n - 1)

\* x << 1 on int, the bit shifted out of the 32 discarded
ShiftLeftOne(x) ==
  IF x >= 1073741824 THEN ((x - 1073741824) * 2 - 1073741824) - 1073741824
  ELSE IF x < -1073741824 THEN ((x + 1073741824) * 2 + 1073741824) + 1073741824
  ELSE 2 * x

\* x << n on int
RECURSIVE ShiftLeft(_, _)
ShiftLeft(x, n) == IF n = 0 THEN x ELSE ShiftLeft(ShiftLeftOne(x), n - 1)

----------------------------------------------------------------------------
(* Builds.  The dispatch is by preprocessor macro, fixed when the header  *)
(* is compiled: no flag, x86-64 baseline (SSE2), -msse4 (SSE3 and SSSE3), *)
(* -mavx2; and asserts are compiled out when NDEBUG is defined.           *)

SimdBuilds ==
  { {}, {"__SSE2__"}, {"__SSE2__", "__SSE3__"},
    {"__SSE2__", "__SSE3__", "__AVX2__"} }

\* __AES_NI__ is set by no compiler flag (-maes sets __AES__): a build that
\* defines it by hand, on the x86-64 baseline with -maes
AesBuilds == { {"__SSE2__", "__AES_NI__"} }

Builds == { m \cup d : m \in SimdBuilds \cup AesBuilds, d \in { {}, {"NDEBUG"} } }

\* mutant: the asserted condition negated
AssertFails_negated(cond) == "NDEBUG" \notin defined /\ cond

\* assert(cond): aborts when the condition is false and NDEBUG is not defined
AssertFails(cond) == "NDEBUG" \notin defined /\ ~cond

----------------------------------------------------------------------------
(* Operands the caller draws. *)

Int16Vals == <<0, 1, 32767, -32768, -1, 255, -256, 12345, -2>>

Vec16(s, t) == [i \in 0..15 |-> Int16Vals[((s + i * t) % Len(Int16Vals)) + 1]]

\* lanes spread over the whole 16-bit range, as rand() narrowed to int16_t is
Ramp16(s) == [i \in 0..15 |-> ToInt16((16 * s + i) * 4099 + s)]

Inputs16 ==
  { Vec16(s, t) : s \in 0..MaxSeed, t \in 0..MaxStride } \cup { Ramp16(s) : s \in 0..MaxSeed }

\* source bytes and control bytes: top bit clear or set, low nibble 0, 1, 5, 15
Int8Vals == <<0, 1, 127, -128, -1, 15, -113, 16, 5>>

Vec32(s, t) == [i \in 0..31 |-> Int8Vals[((s + i * t) % Len(Int8Vals)) + 1]]

\* bytes spread over the whole 8-bit range
Ramp32(s) == [i \in 0..31 |-> ToInt8((32 * s + i) * 37 + s)]

Inputs8 ==
  { Vec32(s, t) : s \in 0..MaxSeed, t \in 0..MaxStride } \cup { Ramp32(s) : s \in 0..MaxSeed }

\* int64_t lanes, each the tuple of its four 16-bit words (low word first)
Vec64(s) ==
  [k \in 0..3 |->
     [j \in 1..4 |-> ToUint16(Int16Vals[((s + 4 * k + j - 1) % Len(Int16Vals)) + 1])]]

Inputs64 == { Vec64(s) : s \in 0..MaxStride }

\* the int64_t operands of the bitwise operations
InputsBits64 == { Vec64(s) : s \in 0..MaxSeed }

\* the 16-lane operands of the permutation, whose four groups of four differ
InputsQuad16 == { Vec16(s, 1) : s \in 0..MaxStride }

\* a template argument int8_t imm8 of a permutation: every 8-bit pattern
Selectors == -128..127

\* a template argument int8_t imm8 of a shift: the small amounts, and amounts
\* around and above the 32 bits of the int that the lanes are promoted to
ShiftAmounts == (0..MaxShift) \cup {31, 32, 33, 40, 64, 127}

\* a __uint128_t as its 16 bytes in memory (little-endian)
Vec128(s, t) == [i \in 0..15 |-> ToUint8(Int8Vals[((s + i * t) % Len(Int8Vals)) + 1])]

Inputs128 == { Vec128(s, t) : s \in 0..MaxSeed, t \in 0..MaxStride }

\* __uint128_t x = static_cast<unsigned>(n), for n of at most 31 bits; an
\* accumulator is the tuple of its 16 bytes, least significant first
FromUnsigned(n) ==
  << n % 256, (n \div 256) % 256, (n \div 65536) % 256, (n \div 16777216) % 256,
     0, 0, 0, 0, 0, 0, 0, 0, 0, 0, 0, 0 >>

\* the threads that call get_randomness, each on an accumulator pair it owns
Threads == {1, 2}

\* an accumulator pair of a caller
Pair(g1, g2) == [gstate_1 |-> g1, gstate_2 |-> g2]

\* pairs drawn as the test draws them, each accumulator from rand(): the two
\* smallest values, the first two values of an unseeded glibc rand(), RAND_MAX
TestSeeds ==
  { Pair(FromUnsigned(s[1]), FromUnsigned(s[2])) :
      s \in { <<0, 0>>, <<0, 1>>, <<1, 0>>, <<1804289383, 846930886>>,
               <<2147483647, 2>> } }

\* pairs that use all 128 bits: 2^126 with 2^127 + 5, and the pair
\* 0xbbb255d37fba8e6b91a6a97b869c4b93, 0x44308e2d4151cf21b648caef16cb776d
WideSeeds ==
  { Pair(<<0, 0, 0, 0, 0, 0, 0, 0, 0, 0, 0, 0, 0, 0, 0, 64>>,
         <<5, 0, 0, 0, 0, 0, 0, 0, 0, 0, 0, 0, 0, 0, 0, 128>>),
    Pair(<<147, 75, 156, 134, 123, 169, 166, 145,
           107, 142, 186, 127, 211, 85, 178, 187>>,
         <<109, 119, 203, 22, 239, 202, 72, 182,
           33, 207, 81, 65, 45, 142, 48, 68>>) }

\* the pairs the first thread starts from
RandSeeds == TestSeeds \cup WideSeeds

\* the pairs the second thread starts from
RandSeedsOther ==
  { g \in TestSeeds : g.gstate_2[1] # 0 }

----------------------------------------------------------------------------
(* Vector registers: reinterpret_cast of an array to __m256i / __m128i    *)
(* and the store back.                                                     *)

\* *reinterpret_cast<const __m256i *>(&a) of an int16_t array
Load16(x) == [i \in DOMAIN x |-> ToUint16(x[i])]

\* _mm256_store_si256 / _mm_store_si128 into an int16_t array
Store16(r) == [i \in DOMAIN r |-> ToInt16(r[i])]

\* the 128-bit block at &a (lanes 0..7) and at &a[8] (lanes 8..15)
Lo128(r) == [i \in 0..7 |-> r[i]]
Hi128(r) == [i \in 0..7 |-> r[i + 8]]

\* two 128-bit stores, to &c and to &c[8]
Join128(lo, hi) == [i \in 0..15 |-> IF i < 8 THEN lo[i] ELSE hi[i - 8]]

----------------------------------------------------------------------------
(* m256_hadd_epi16 *)

\* _mm_hadd_epi16: dst[15:0] := a[31:16] + a[15:0], ..., then b likewise
mm_hadd_epi16(ra, rb) ==
  [k \in 0..7 |-> IF k < 4 THEN (ra[2 * k + 1] + ra[2 * k]) % 65536
                  ELSE (rb[2 * (k - 4) + 1] + rb[2 * (k - 4)]) % 65536]

\* _mm256_hadd_epi16: the same within each 128-bit lane
mm256_hadd_epi16(ra, rb) ==
  Join128(mm_hadd_epi16(Lo128(ra), Lo128(rb)), mm_hadd_epi16(Hi128(ra), Hi128(rb)))

\* mutant: no interleave per 128-bit block, all pairs of a and then all of b
hadd_epi16_block_flat(x, y, i) ==
  IF i = 0
    THEN << x[0] + x[1], x[2] + x[3], x[4] + x[5], x[6] + x[7],
            x[8] + x[9], x[10] + x[11], x[12] + x[13], x[14] + x[15] >>
    ELSE << y[0] + y[1], y[2] + y[3], y[4] + y[5], y[6] + y[7],
            y[8] + y[9], y[10] + y[11], y[12] + y[13], y[14] + y[15] >>

\* the eight assignments of one iteration of the hand-written loop
hadd_epi16_block(x, y, i) ==
  << x[i + 0] + x[i + 1], x[i + 2] + x[i + 3], x[i + 4] + x[i + 5], x[i + 6] + x[i + 7],
     y[i + 0] + y[i + 1], y[i + 2] + y[i + 3], y[i + 4] + y[i + 5], y[i + 6] + y[i + 7] >>

\* the #else branch: for (i = 0; i < 16; i += 8), each int sum stored to int16_t
m256_hadd_epi16_plain(x, y) ==
  [j \in 0..15 |-> ToInt16(hadd_epi16_block(x, y, 8 * (j \div 8))[(j % 8) + 1])]

m256_hadd_epi16(x, y) ==
  IF "__AVX2__" \in defined
    THEN Store16(mm256_hadd_epi16(Load16(x), Load16(y)))
  ELSE IF "__SSE3__" \in defined
    THEN Join128(Store16(mm_hadd_epi16(Lo128(Load16(x)), Lo128(Load16(y)))),
                 Store16(mm_hadd_epi16(Hi128(Load16(x)), Hi128(Load16(y)))))
  ELSE m256_hadd_epi16_plain(x, y)

----------------------------------------------------------------------------
(* m256_xor_epi64, m256_or_epi64 and m256_and_epi64.  An int64_t lane is  *)
(* the tuple of its four 16-bit words; the operators act on each bit, so   *)
(* on each word.                                                           *)

\* mutant: the exclusive or written as an inclusive or
m256_xor_epi64_asor(x, y) ==
  [i \in 0..3 |-> [j \in 1..4 |-> BitOr(x[i][j], y[i][j])]]

\* for (i = 0; i < 4; i++) c[i] = a[i] ^ b[i]
m256_xor_epi64(x, y) ==
  [i \in 0..3 |-> [j \in 1..4 |-> BitXor(x[i][j], y[i][j])]]

\* for (i = 0; i < 4; i++) c[i] = a[i] | b[i]
m256_or_epi64(x, y) ==
  [i \in 0..3 |-> [j \in 1..4 |-> BitOr(x[i][j], y[i][j])]]

\* mutant: the conjunction written as a disjunction
m256_and_epi64_asor(x, y) ==
  [i \in 0..3 |-> [j \in 1..4 |-> BitOr(x[i][j], y[i][j])]]

\* for (i = 0; i < 4; i++) c[i] = a[i] & b[i]
m256_and_epi64(x, y) ==
  [i \in 0..3 |-> [j \in 1..4 |-> BitAnd(x[i][j], y[i][j])]]

----------------------------------------------------------------------------
(* m256_add_epi16 and m256_sub_epi16 *)

\* mutant: the sum clamped to the int16_t range, as _mm256_adds_epi16 does
m256_add_epi16_saturating(x, y) ==
  [i \in 0..15 |->
     IF x[i] + y[i] > 32767 THEN 32767
     ELSE IF x[i] + y[i] < -32768 THEN -32768
     ELSE x[i] + y[i]]

\* c[i] = a[i] + b[i]: the int sum stored to int16_t
m256_add_epi16(x, y) == [i \in 0..15 |-> ToInt16(x[i] + y[i])]

\* c[i] = a[i] - b[i]: the int difference stored to int16_t
m256_sub_epi16(x, y) == [i \in 0..15 |-> ToInt16(x[i] - y[i])]

----------------------------------------------------------------------------
(* m256_cmpgt_epi16 *)

\* _mm_cmpgt_epi16 / _mm256_cmpgt_epi16: signed compare, all ones or zero
mm_cmpgt_epi16(ra, rb) ==
  [i \in DOMAIN ra |-> IF ToInt16(ra[i]) > ToInt16(rb[i]) THEN 65535 ELSE 0]

\* (a[i] > b[i]) evaluates to 0 or 1
BoolToInt(p) == IF p THEN 1 ELSE 0

\* mutant: the comparison written as >=
m256_cmpgt_epi16_ge(x, y) ==
  [i \in 0..15 |-> ToInt16(BoolToInt(x[i] >= y[i]) * 65535)]

\* mutant: the boolean stored as it is, without the multiplication
m256_cmpgt_epi16_bool(x, y) ==
  [i \in 0..15 |-> ToInt16(BoolToInt(x[i] > y[i]))]

\* the #else branch: c[i] = (a[i] > b[i]) * 0xFFFF, stored to int16_t
m256_cmpgt_epi16_plain(x, y) ==
  [i \in 0..15 |-> ToInt16(BoolToInt(x[i] > y[i]) * 65535)]

m256_cmpgt_epi16(x, y) ==
  IF "__AVX2__" \in defined
    THEN Store16(mm_cmpgt_epi16(Load16(x), Load16(y)))
  ELSE IF "__SSE2__" \in defined
    THEN Join128(Store16(mm_cmpgt_epi16(Lo128(Load16(x)), Lo128(Load16(y)))),
                 Store16(mm_cmpgt_epi16(Hi128(Load16(x)), Hi128(Load16(y)))))
  ELSE m256_cmpgt_epi16_plain(x, y)

----------------------------------------------------------------------------
(* e_sign and m256_sign_epi16 *)

\* mutant: the two comparisons exchanged
e_sign_swapped(value) == ToInt16(BoolToInt(value < 0) - BoolToInt(0 < value))

\* (int16_t(0) < value) - (value < int16_t(0)), returned as int16_t
e_sign(value) == ToInt16(BoolToInt(0 < value) - BoolToInt(value < 0))

\* _mm_sign_epi16 / _mm256_sign_epi16: NEG(a) on 16 bits when b < 0
mm_sign_epi16(ra, rb) ==
  [i \in DOMAIN ra |->
     IF ToInt16(rb[i]) < 0 THEN (65536 - ra[i]) % 65536
     ELSE IF rb[i] = 0 THEN 0
     ELSE ra[i]]

\* the #else branch: c[i] = a[i] * e_sign(b[i]), an int product stored to int16_t
m256_sign_epi16_plain(x, y) ==
  [i \in 0..15 |-> ToInt16(x[i] * e_sign(y[i]))]

m256_sign_epi16(x, y) ==
  IF "__AVX2__" \in defined
    THEN Store16(mm_sign_epi16(Load16(x), Load16(y)))
  ELSE IF "__SSE3__" \in defined
    THEN Join128(Store16(mm_sign_epi16(Lo128(Load16(x)), Lo128(Load16(y)))),
                 Store16(mm_sign_epi16(Hi128(Load16(x)), Hi128(Load16(y)))))
  ELSE m256_sign_epi16_plain(x, y)

----------------------------------------------------------------------------
(* m256_abs_epi16 *)

\* _mm_abs_epi16 / _mm256_abs_epi16: ABS on 16 bits, 0x8000 stays 0x8000
mm_abs_epi16(ra) ==
  [i \in DOMAIN ra |-> IF ToInt16(ra[i]) < 0 THEN (65536 - ra[i]) % 65536 ELSE ra[i]]

\* mutant: the shift done on the unsigned pattern, so the mask is 1 and not -1
signed_extend_logical(v) == ToInt16(ShiftRight(ToUint16(v), 15))

\* a[i] >> (CHAR_BIT * sizeof(int16_t) - 1), stored to const int16_t
signed_extend(v) == ToInt16(ShiftRight(v, 15))

\* the #else branch: b[i] = (a[i] ^ signed_extend) - signed_extend
m256_abs_epi16_plain(x) ==
  [i \in 0..15 |-> ToInt16(BitXor(x[i], signed_extend(x[i])) - signed_extend(x[i]))]

m256_abs_epi16(x) ==
  IF "__AVX2__" \in defined
    THEN Store16(mm_abs_epi16(Load16(x)))
  ELSE IF "__SSE3__" \in defined
    THEN Join128(Store16(mm_abs_epi16(Lo128(Load16(x)))),
                 Store16(mm_abs_epi16(Hi128(Load16(x)))))
  ELSE m256_abs_epi16_plain(x)

----------------------------------------------------------------------------
(* m256_shuffle_epi8 *)

\* reinterpret_cast load of an int8_t array, and the store back
Load8(x) == [i \in DOMAIN x |-> ToUint8(x[i])]
Store8(r) == [i \in DOMAIN r |-> ToInt8(r[i])]

\* _mm_shuffle_epi8: IF b[7] THEN 0 ELSE a[b[3:0]], on one 16-byte block
mm_shuffle_epi8(ra, rb) ==
  [j \in 0..15 |-> IF rb[j] >= 128 THEN 0 ELSE ra[rb[j] % 16]]

\* _mm256_shuffle_epi8: the same within each 128-bit lane
mm256_shuffle_epi8(ra, rb) ==
  [j \in 0..31 |->
     IF j < 16 THEN mm_shuffle_epi8([i \in 0..15 |-> ra[i]], [i \in 0..15 |-> rb[i]])[j]
     ELSE mm_shuffle_epi8([i \in 0..15 |-> ra[i + 16]], [i \in 0..15 |-> rb[i + 16]])[j - 16]]

\* const unsigned flag = b[i] & 0x80;  const unsigned pos = b[i] & 0x0F;
shuffle_flag(v) == BitAnd(v, 128)
shuffle_pos(v) == BitAnd(v, 15)

\* int16_t(~flag) * a[pos], an int product stored to int8_t
shuffle_byte(v, src) == ToInt8(ToInt16(BitNot(shuffle_flag(v))) * src)

\* mutant: the upper half indexed like the lower, without the offset of 16
m256_shuffle_epi8_crossed(x, y) ==
  [j \in 0..31 |-> shuffle_byte(y[j], x[shuffle_pos(y[j])])]

\* the #else branch: the loop over i < 16 writes c[i] and c[i + 16]
m256_shuffle_epi8_plain(x, y) ==
  [j \in 0..31 |->
     IF j < 16 THEN shuffle_byte(y[j], x[shuffle_pos(y[j])])
     ELSE shuffle_byte(y[j], x[shuffle_pos(y[j]) + 16])]

\* what 16 bytes of c that no store wrote may hold on return
Leftover8(g) == [i \in 0..15 |-> Int8Vals[((g * (i + 1)) % Len(Int8Vals)) + 1]]

\* the #elif branch: the first store writes c[0..15]; the second computes its
\* addresses as &c + 8, &a + 8 and &b + 8 on pointers to the whole 32-byte
\* arrays, 256 bytes past each object, so c[16..31] is returned unwritten
m256_shuffle_epi8_sse(x, y) ==
  { [j \in 0..31 |->
       IF j < 16
         THEN Store8(mm_shuffle_epi8([i \in 0..15 |-> Load8(x)[i]],
                                     [i \in 0..15 |-> Load8(y)[i]]))[j]
         ELSE Leftover8(g)[j - 16]] : g \in 0..MaxGarbage }

\* the set of arrays the call can return
m256_shuffle_epi8(x, y) ==
  IF "__AVX2__" \in defined
    THEN { Store8(mm256_shuffle_epi8(Load8(x), Load8(y))) }
  ELSE IF "__SSE3__" \in defined
    THEN m256_shuffle_epi8_sse(x, y)
  ELSE { m256_shuffle_epi8_plain(x, y) }

----------------------------------------------------------------------------
(* BitPatterns: the masks and shifts *)

int8_zero_pair_mask == 3
int8_first_pair_mask == 12
int8_second_pair_mask == 48
int8_third_pair_mask == 192

int8_zero_pair_shift == 0
int8_first_pair_shift == 2
int8_second_pair_shift == 4
int8_third_pair_shift == 6

\* the single-bit masks and shifts, as the source gives them
int8_zero_bit_mask == 1
int8_first_bit_mask == 2
int8_second_bit_mask == 4
int8_third_bit_mask == 8
int8_fourth_bit_mask == 16
int8_fifth_bit_mask == 32
int8_sixth_bit_mask == 64
int8_seventh_bit_mask == 128

int8_zero_bit_shift == 0
int8_first_bit_shift == 1
int8_second_bit_shift == 2
int8_third_bit_shift == 3
int8_fourth_bit_shift == 4
int8_fifth_bit_shift == 5
int8_sixth_bit_shift == 6
int8_seventh_bit_shift == 0

\* the 4-bit masks and shifts
int8_zero_quad_mask == 15
int8_first_quad_mask == 240

int8_zero_quad_shift == 0
int8_first_quad_shift == 4

\* the mask/shift pairs of BitPatterns, each with the width of its sub-field
\* and the ordinal in its name: <<mask, shift, width, ordinal>>
BitPatternPairs ==
  { <<int8_zero_bit_mask, int8_zero_bit_shift, 1, 0>>,
    <<int8_first_bit_mask, int8_first_bit_shift, 1, 1>>,
    <<int8_second_bit_mask, int8_second_bit_shift, 1, 2>>,
    <<int8_third_bit_mask, int8_third_bit_shift, 1, 3>>,
    <<int8_fourth_bit_mask, int8_fourth_bit_shift, 1, 4>>,
    <<int8_fifth_bit_mask, int8_fifth_bit_shift, 1, 5>>,
    <<int8_sixth_bit_mask, int8_sixth_bit_shift, 1, 6>>,
    <<int8_seventh_bit_mask, int8_seventh_bit_shift, 1, 7>>,
    <<int8_zero_pair_mask, int8_zero_pair_shift, 2, 0>>,
    <<int8_first_pair_mask, int8_first_pair_shift, 2, 1>>,
    <<int8_second_pair_mask, int8_second_pair_shift, 2, 2>>,
    <<int8_third_pair_mask, int8_third_pair_shift, 2, 3>>,
    <<int8_zero_quad_mask, int8_zero_quad_shift, 4, 0>>,
    <<int8_first_quad_mask, int8_first_quad_shift, 4, 1>> }

----------------------------------------------------------------------------
(* m256_permute4x64_epi64 and m256_permute4x64_epi16 *)

\* _mm256_permute4x64_epi64: dst lane k := SELECT4(a, imm8[2k+1:2k]); the
\* immediate is an int, of which the instruction encodes bits 7..0
mm256_permute4x64_epi64(ra, imm8) ==
  [k \in 0..3 |-> ra[(ToUint8(imm8) \div (4 ^ k)) % 4]]

\* mutant: third decoded with the mask and shift of second
permute_third_pasted(imm8) ==
  ShiftRight(BitAnd(imm8, int8_second_pair_mask), int8_second_pair_shift)

\* mutant: third masked and left where it is, the shift dropped
permute_third_unshifted(imm8) == BitAnd(imm8, int8_third_pair_mask)

\* constexpr unsigned zero / first / second / third of the #else branch
permute_zero(imm8) == ShiftRight(BitAnd(imm8, int8_zero_pair_mask), int8_zero_pair_shift)
permute_first(imm8) == ShiftRight(BitAnd(imm8, int8_first_pair_mask), int8_first_pair_shift)
permute_second(imm8) == ShiftRight(BitAnd(imm8, int8_second_pair_mask), int8_second_pair_shift)
permute_third(imm8) == ShiftRight(BitAnd(imm8, int8_third_pair_mask), int8_third_pair_shift)

\* the #else branch: b[0] = a[zero]; b[1] = a[first]; b[2] = a[second]; b[3] = a[third]
m256_permute4x64_epi64_plain(x, imm8) ==
  [k \in 0..3 |->
     CASE k = 0 -> x[permute_zero(imm8)]
       [] k = 1 -> x[permute_first(imm8)]
       [] k = 2 -> x[permute_second(imm8)]
       [] k = 3 -> x[permute_third(imm8)]]

\* whether the call compiles: the intrinsic of the AVX2 branch takes the
\* template argument as an int and accepts only an immediate in 0..255, so a
\* negative int8_t selector is a build error there
permute_instantiates(imm8) == "__AVX2__" \in defined => imm8 >= 0

\* the static_asserts of the #else branches, on which the hand-written code
\* compiles: zero < 4, ... in the 64-bit variant and, zero being 4 * the field
\* there, zero < 16, ... in the 16-bit variant
permute4x64_epi64_static_asserts(imm8) ==
  "__AVX2__" \notin defined =>
     /\ permute_zero(imm8) < 4
     /\ permute_first(imm8) < 4
     /\ permute_second(imm8) < 4
     /\ permute_third(imm8) < 4

permute4x64_epi16_static_asserts(imm8) ==
  "__AVX2__" \notin defined =>
     /\ 4 * permute_zero(imm8) < 16
     /\ 4 * permute_first(imm8) < 16
     /\ 4 * permute_second(imm8) < 16
     /\ 4 * permute_third(imm8) < 16

m256_permute4x64_epi64(x, imm8) ==
  IF "__AVX2__" \in defined
    THEN mm256_permute4x64_epi64(x, imm8)
  ELSE m256_permute4x64_epi64_plain(x, imm8)

\* *reinterpret_cast<const __m256i *>(&a[0]) of an int16_t array, read as four
\* 64-bit lanes, and the store of such a register into an int16_t array
Load16As64(x) == [k \in 0..3 |-> [j \in 1..4 |-> ToUint16(x[4 * k + j - 1])]]
Store64As16(r) == [i \in 0..15 |-> ToInt16(r[i \div 4][(i % 4) + 1])]

\* mutant: the lanes of each copied group taken in reverse order
m256_permute4x64_epi16_reversed(x, imm8) ==
  [i \in 0..15 |->
     CASE i \div 4 = 0 -> x[4 * permute_zero(imm8) + 3 - (i % 4)]
       [] i \div 4 = 1 -> x[4 * permute_first(imm8) + 3 - (i % 4)]
       [] i \div 4 = 2 -> x[4 * permute_second(imm8) + 3 - (i % 4)]
       [] i \div 4 = 3 -> x[4 * permute_third(imm8) + 3 - (i % 4)]]

\* the #else branch of the 16-bit variant: zero, first, second, third are
\* 4 * the field and b[4k + j] = a[<k-th> + j]
m256_permute4x64_epi16_plain(x, imm8) ==
  [i \in 0..15 |->
     CASE i \div 4 = 0 -> x[4 * permute_zero(imm8) + (i % 4)]
       [] i \div 4 = 1 -> x[4 * permute_first(imm8) + (i % 4)]
       [] i \div 4 = 2 -> x[4 * permute_second(imm8) + (i % 4)]
       [] i \div 4 = 3 -> x[4 * permute_third(imm8) + (i % 4)]]

m256_permute4x64_epi16(x, imm8) ==
  IF "__AVX2__" \in defined
    THEN Store64As16(mm256_permute4x64_epi64(Load16As64(x), imm8))
  ELSE m256_permute4x64_epi16_plain(x, imm8)

----------------------------------------------------------------------------
(* m256_slli_epi16 and m256_srli_epi16 *)

\* the counts by which a build shifts the promoted lane, an int of 32 bits,
\* when the source says << imm8 or >> imm8.  Below 32 it is imm8.  From 32 on
\* the shift is undefined: gcc folds it to 0 when it optimises (as a shift
\* by 32 that pushes every bit out would give), and otherwise emits the
\* instruction, which takes its count modulo 32
ShiftCounts(imm8) == IF imm8 < 32 THEN {imm8} ELSE {32, imm8 % 32}

\* mutant: the shift count taken modulo the lane width
m256_slli_epi16_masked(x, imm8) == [i \in 0..15 |-> ToInt16(ShiftLeft(x[i], imm8 % 16))]

\* mutant: the shifted pattern kept as unsigned, not stored to int16_t
m256_slli_epi16_unsigned(x, imm8) == [i \in 0..15 |-> ToUint16(ShiftLeft(x[i], imm8))]

\* b[i] = a[i] << imm8: a[i] is promoted to int, the result stored to int16_t
m256_slli_epi16(x, imm8) == [i \in 0..15 |-> ToInt16(ShiftLeft(x[i], imm8))]

\* mutant: the signed lane shifted as it is, copies of the sign bit shifted in
m256_srli_epi16_arith(x, imm8) == [i \in 0..15 |-> ToInt16(ShiftRight(x[i], imm8))]

\* b[i] = static_cast<int16_t>(static_cast<uint16_t>(a[i]) >> imm8)
m256_srli_epi16(x, imm8) == [i \in 0..15 |-> ToInt16(ShiftRight(ToUint16(x[i]), imm8))]

----------------------------------------------------------------------------
(* m256_broadcastsi128_si256 *)

\* the int16_t lanes of a block of bytes in memory
BytesAsInt16(m) == [i \in 0..(Cardinality(DOMAIN m) \div 2) - 1 |->
                      ToInt16(m[2 * i] + 256 * m[2 * i + 1])]

\* _mm256_broadcastsi128_si256: dst[127:0] := a; dst[255:128] := a
mm256_broadcastsi128_si256(value) == [j \in 0..31 |-> value[j % 16]]

\* mutant: the second copy left out, the upper half still zero
m256_broadcastsi128_si256_half(value) ==
  [i \in 0..15 |-> IF i < 8 THEN BytesAsInt16(value)[i] ELSE 0]

\* the #else branch: memcpy(&a[0], &value, 16); memcpy(&a[8], &value, 16)
m256_broadcastsi128_si256_plain(value) ==
  [i \in 0..15 |-> IF i < 8 THEN BytesAsInt16(value)[i] ELSE BytesAsInt16(value)[i - 8]]

m256_broadcastsi128_si256(value) ==
  IF "__AVX2__" \in defined
    THEN BytesAsInt16(mm256_broadcastsi128_si256(value))
  ELSE IF "__SSE2__" \in defined
    THEN Join128(BytesAsInt16(value), BytesAsInt16(value))
  ELSE m256_broadcastsi128_si256_plain(value)

----------------------------------------------------------------------------
(* get_randomness.  An accumulator or an output is the tuple of its 16     *)
(* bytes, least significant first: byte i is element i + 1.                *)

\* the eight bytes of the unsigned long literal 0xda942042e4dd85b5
LehmerMultiplier == <<181, 133, 221, 228, 66, 32, 148, 218>>

\* the products of bytes that land on element k of x * m, m of 64 bits
Column128(x, m, k) ==
  LET T(j) == IF j <= k THEN x[k - j + 1] * m[j] ELSE 0
  IN  T(1) + T(2) + T(3) + T(4) + T(5) + T(6) + T(7) + T(8)

\* elements k..16 of x * m, given what the elements below k carry into k
RECURSIVE MulFrom(_, _, _, _)
MulFrom(x, m, k, carry) ==
  IF k = 17 THEN <<>>
  ELSE <<(Column128(x, m, k) + carry) % 256>>
         \o MulFrom(x, m, k + 1, (Column128(x, m, k) + carry) \div 256)

\* x * m on __uint128_t, m converted from 64 bits: the product modulo 2^128
Mul128(x, m) == MulFrom(x, m, 1, 0)

\* mutant: the multiplier with its lowest bit cleared, an even number
lehmer_step_even(g) == Mul128(g, <<180, 133, 221, 228, 66, 32, 148, 218>>)

\* mutant: the accumulator left as it is
lehmer_step_idle(g) == g

\* gstate *= 0xda942042e4dd85b5
lehmer_step(g) == Mul128(g, LehmerMultiplier)

\* mutant: the two halves taken from the same ends of the accumulators
lehmer_out_straight(g1, g2) == SubSeq(g2, 1, 8) \o SubSeq(g1, 9, 16)

\* (gstate_1 << 64) | (gstate_2 >> 64)
lehmer_out(g1, g2) == SubSeq(g2, 9, 16) \o SubSeq(g1, 1, 8)

\* the AES S-box
SBox ==
  << 99, 124, 119, 123, 242, 107, 111, 197,  48,   1, 103,  43, 254, 215, 171, 118,
     202, 130, 201, 125, 250,  89,  71, 240, 173, 212, 162, 175, 156, 164, 114, 192,
     183, 253, 147,  38,  54,  63, 247, 204,  52, 165, 229, 241, 113, 216,  49,  21,
       4, 199,  35, 195,  24, 150,   5, 154,   7,  18, 128, 226, 235,  39, 178, 117,
       9, 131,  44,  26,  27, 110,  90, 160,  82,  59, 214, 179,  41, 227,  47, 132,
      83, 209,   0, 237,  32, 252, 177,  91, 106, 203, 190,  57,  74,  76,  88, 207,
     208, 239, 170, 251,  67,  77,  51, 133,  69, 249,   2, 127,  80,  60, 159, 168,
      81, 163,  64, 143, 146, 157,  56, 245, 188, 182, 218,  33,  16, 255, 243, 210,
     205,  12,  19, 236,  95, 151,  68,  23, 196, 167, 126,  61, 100,  93,  25, 115,
      96, 129,  79, 220,  34,  42, 144, 136,  70, 238, 184,  20, 222,  94,  11, 219,
     224,  50,  58,  10,  73,   6,  36,  92, 194, 211, 172,  98, 145, 149, 228, 121,
     231, 200,  55, 109, 141, 213,  78, 169, 108,  86, 244, 234, 101, 122, 174,   8,
     186, 120,  37,  46,  28, 166, 180, 198, 232, 221, 116,  31,  75, 189, 139, 138,
     112,  62, 181, 102,  72,   3, 246,  14,  97,  53,  87, 185, 134, 193,  29, 158,
     225, 248, 152,  17, 105, 217, 142, 148, 155,  30, 135, 233, 206,  85,  40, 223,
     140, 161, 137,  13, 191, 230,  66, 104,  65, 153,  45,  15, 176,  84, 187,  22 >>

\* multiplication by x in GF(2^8) modulo x^8 + x^4 + x^3 + x + 1
XTime(v) == IF v >= 128 THEN BitXor((2 * v) % 256, 27) ELSE 2 * v

\* byte i of a MixColumns output, from the four bytes of its column
MixColumn(s0, s1, s2, s3) ==
  BitXor(BitXor(XTime(s0), BitXor(XTime(s1), s1)), BitXor(s2, s3))

\* _mm_aesenc_si128(state, key): ShiftRows, SubBytes, MixColumns, xor with key
mm_aesenc_si128(state, key) ==
  LET sub == [i \in 0..15 |-> SBox[state[((i + 4 * (i % 4)) % 16) + 1] + 1]]
      col(i) == 4 * (i \div 4)
      mix == [i \in 0..15 |->
                MixColumn(sub[col(i) + (i % 4)], sub[col(i) + ((i + 1) % 4)],
                          sub[col(i) + ((i + 2) % 4)], sub[col(i) + ((i + 3) % 4)])]
  IN  [i \in 1..16 |-> BitXor(mix[i - 1], key[i])]

\* the #ifdef __AES_NI__ branch of one whole call on the pair g: the pair it
\* leaves and the value it returns
get_randomness_aes(g) ==
  [gstate_1 |-> g.gstate_1, gstate_2 |-> g.gstate_2,
   out |-> mm_aesenc_si128(g.gstate_1, g.gstate_2)]

\* the #else branch of one whole call
get_randomness_lehmer(g) ==
  LET g1 == lehmer_step(g.gstate_1)
      g2 == lehmer_step(g.gstate_2)
  IN  [gstate_1 |-> g1, gstate_2 |-> g2, out |-> lehmer_out(g1, g2)]

get_randomness(g) ==
  IF "__AES_NI__" \in defined THEN get_randomness_aes(g) ELSE get_randomness_lehmer(g)

----------------------------------------------------------------------------
(* The caller. *)

\* the call returned r
Return(name, x, y, i, r) ==
  /\ pc' = "returned"
  /\ op' = name
  /\ a' = x
  /\ b' = y
  /\ imm' = i
  /\ c' = r
  /\ UNCHANGED <<defined, gstate, seed, tpc, tmp, entry, outs>>

\* the call ended in a failed assert: nothing is returned
Abort(name, x, y, i) ==
  /\ pc' = "aborted"
  /\ op' = name
  /\ a' = x
  /\ b' = y
  /\ imm' = i
  /\ c' = <<>>
  /\ UNCHANGED <<defined, gstate, seed, tpc, tmp, entry, outs>>

Init ==
  /\ defined \in Builds
  /\ pc = "start"
  /\ op = "none"
  /\ a = <<>>
  /\ b = <<>>
  /\ imm = 0
  /\ c = <<>>
  /\ gstate = <<>>
  /\ seed = <<>>
  /\ tpc = <<>>
  /\ tmp = <<>>
  /\ entry = <<>>
  /\ outs = <<>>

Call_hadd_epi16 ==
  /\ pc = "start"
  /\ \E x \in Inputs16, y \in Inputs16 :
       Return("m256_hadd_epi16", x, y, 0, m256_hadd_epi16(x, y))

Call_xor_epi64 ==
  /\ pc = "start"
  /\ \E x \in InputsBits64, y \in InputsBits64 :
       Return("m256_xor_epi64", x, y, 0, m256_xor_epi64(x, y))

Call_or_epi64 ==
  /\ pc = "start"
  /\ \E x \in InputsBits64, y \in InputsBits64 :
       IF AssertFails(x # y)
         THEN Abort("m256_or_epi64", x, y, 0)
         ELSE Return("m256_or_epi64", x, y, 0, m256_or_epi64(x, y))

Call_and_epi64 ==
  /\ pc = "start"
  /\ \E x \in InputsBits64, y \in InputsBits64 :
       IF AssertFails(x # y)
         THEN Abort("m256_and_epi64", x, y, 0)
         ELSE Return("m256_and_epi64", x, y, 0, m256_and_epi64(x, y))

Call_add_epi16 ==
  /\ pc = "start"
  /\ \E x \in Inputs16, y \in Inputs16 :
       Return("m256_add_epi16", x, y, 0, m256_add_epi16(x, y))

Call_sub_epi16 ==
  /\ pc = "start"
  /\ \E x \in Inputs16, y \in Inputs16 :
       Return("m256_sub_epi16", x, y, 0, m256_sub_epi16(x, y))

Call_cmpgt_epi16 ==
  /\ pc = "start"
  /\ \E x \in Inputs16, y \in Inputs16 :
       IF AssertFails(x # y)
         THEN Abort("m256_cmpgt_epi16", x, y, 0)
         ELSE Return("m256_cmpgt_epi16", x, y, 0, m256_cmpgt_epi16(x, y))

Call_sign_epi16 ==
  /\ pc = "start"
  /\ \E x \in Inputs16, y \in Inputs16 :
       IF AssertFails(x # y)
         THEN Abort("m256_sign_epi16", x, y, 0)
         ELSE Return("m256_sign_epi16", x, y, 0, m256_sign_epi16(x, y))

Call_abs_epi16 ==
  /\ pc = "start"
  /\ \E x \in Inputs16 :
       Return("m256_abs_epi16", x, <<>>, 0, m256_abs_epi16(x))

Call_shuffle_epi8 ==
  /\ pc = "start"
  /\ \E x \in Inputs8, y \in Inputs8 :
       IF AssertFails(x # y)
         THEN Abort("m256_shuffle_epi8", x, y, 0)
         ELSE \E r \in m256_shuffle_epi8(x, y) :
                Return("m256_shuffle_epi8", x, y, 0, r)

Call_permute4x64_epi64 ==
  /\ pc = "start"
  /\ \E x \in Inputs64, imm8 \in Selectors :
       /\ permute_instantiates(imm8)
       /\ permute4x64_epi64_static_asserts(imm8)
       /\ Return("m256_permute4x64_epi64", x, <<>>, imm8, m256_permute4x64_epi64(x, imm8))

Call_permute4x64_epi16 ==
  /\ pc = "start"
  /\ \E x \in InputsQuad16, imm8 \in Selectors :
       /\ permute_instantiates(imm8)
       /\ permute4x64_epi16_static_asserts(imm8)
       /\ Return("m256_permute4x64_epi16", x, <<>>, imm8, m256_permute4x64_epi16(x, imm8))

Call_slli_epi16 ==
  /\ pc = "start"
  /\ \E x \in Inputs16, imm8 \in ShiftAmounts :
       \E n \in ShiftCounts(imm8) :
          Return("m256_slli_epi16", x, <<>>, imm8, m256_slli_epi16(x, n))

Call_srli_epi16 ==
  /\ pc = "start"
  /\ \E x \in Inputs16, imm8 \in ShiftAmounts :
       \E n \in ShiftCounts(imm8) :
          Return("m256_srli_epi16", x, <<>>, imm8, m256_srli_epi16(x, n))

Call_broadcastsi128_si256 ==
  /\ pc = "start"
  /\ \E value \in Inputs128 :
       Return("m256_broadcastsi128_si256", value, <<>>, 0, m256_broadcastsi128_si256(value))

\* the accumulator pair the references of thread t's calls are bound to
\* (mutant: both threads pass the pair of thread 1)
OwnPair_shared(t) == 1

OwnPair(t) == t

\* each thread initialises its accumulators: __uint128_t a = ..., b = ...
Seed ==
  /\ pc = "start"
  /\ \E g1 \in RandSeeds, g2 \in RandSeedsOther :
       /\ gstate' = [t \in Threads |-> IF t = 1 THEN g1 ELSE g2]
       /\ seed' = [t \in Threads |-> IF t = 1 THEN g1 ELSE g2]
  /\ pc' = "rand"
  /\ tpc' = [t \in Threads |-> "idle"]
  /\ tmp' = [t \in Threads |-> <<>>]
  /\ entry' = [t \in Threads |-> <<>>]
  /\ outs' = [t \in Threads |-> <<>>]
  /\ UNCHANGED <<defined, op, a, b, imm, c>>

\* thread t enters get_randomness (Lehmer branch) and loads gstate_1
Rand_read1(t) ==
  /\ pc = "rand"
  /\ tpc[t] = "idle"
  /\ Len(outs[t]) < MaxCalls
  /\ "__AES_NI__" \notin defined
  /\ entry' = [entry EXCEPT ![t] = gstate[OwnPair(t)]]
  /\ tmp' = [tmp EXCEPT ![t] = gstate[OwnPair(t)].gstate_1]
  /\ tpc' = [tpc EXCEPT ![t] = "write1"]
  /\ UNCHANGED <<defined, pc, op, a, b, imm, c, gstate, seed, outs>>

\* gstate_1 *= 0xda942042e4dd85b5: the product is stored
Rand_write1(t) ==
  /\ pc = "rand"
  /\ tpc[t] = "write1"
  /\ gstate' = [gstate EXCEPT ![OwnPair(t)].gstate_1 = lehmer_step(tmp[t])]
  /\ tpc' = [tpc EXCEPT ![t] = "read2"]
  /\ UNCHANGED <<defined, pc, op, a, b, imm, c, seed, tmp, entry, outs>>

\* gstate_2 is loaded
Rand_read2(t) ==
  /\ pc = "rand"
  /\ tpc[t] = "read2"
  /\ tmp' = [tmp EXCEPT ![t] = gstate[OwnPair(t)].gstate_2]
  /\ tpc' = [tpc EXCEPT ![t] = "write2"]
  /\ UNCHANGED <<defined, pc, op, a, b, imm, c, gstate, seed, entry, outs>>

\* gstate_2 *= 0xda942042e4dd85b5: the product is stored
Rand_write2(t) ==
  /\ pc = "rand"
  /\ tpc[t] = "write2"
  /\ gstate' = [gstate EXCEPT ![OwnPair(t)].gstate_2 = lehmer_step(tmp[t])]
  /\ tpc' = [tpc EXCEPT ![t] = "output"]
  /\ UNCHANGED <<defined, pc, op, a, b, imm, c, seed, tmp, entry, outs>>

\* out = (gstate_1 << 64) | (gstate_2 >> 64); return out
Rand_output(t) ==
  /\ pc = "rand"
  /\ tpc[t] = "output"
  /\ outs' = [outs EXCEPT ![t] = Append(@, lehmer_out(gstate[OwnPair(t)].gstate_1,
                                                     gstate[OwnPair(t)].gstate_2))]
  /\ tpc' = [tpc EXCEPT ![t] = "idle"]
  /\ UNCHANGED <<defined, pc, op, a, b, imm, c, gstate, seed, tmp, entry>>

\* the __AES_NI__ branch: one store of _mm_aesenc_si128(gstate_1, gstate_2)
Rand_aesenc(t) ==
  /\ pc = "rand"
  /\ tpc[t] = "idle"
  /\ Len(outs[t]) < MaxCalls
  /\ "__AES_NI__" \in defined
  /\ entry' = [entry EXCEPT ![t] = gstate[OwnPair(t)]]
  /\ outs' = [outs EXCEPT ![t] = Append(@, mm_aesenc_si128(gstate[OwnPair(t)].gstate_1,
                                                         gstate[OwnPair(t)].gstate_2))]
  /\ UNCHANGED <<defined, pc, op, a, b, imm, c, gstate, seed, tpc, tmp>>

Next ==
  \/ Call_hadd_epi16
  \/ Call_xor_epi64
  \/ Call_or_epi64
  \/ Call_and_epi64
  \/ Call_add_epi16
  \/ Call_sub_epi16
  \/ Call_cmpgt_epi16
  \/ Call_sign_epi16
  \/ Call_abs_epi16
  \/ Call_shuffle_epi8
  \/ Call_permute4x64_epi64
  \/ Call_permute4x64_epi16
  \/ Call_slli_epi16
  \/ Call_srli_epi16
  \/ Call_broadcastsi128_si256
  \/ Seed
  \/ \E t \in Threads : Rand_read1(t)
  \/ \E t \in Threads : Rand_write1(t)
  \/ \E t \in Threads : Rand_read2(t)
  \/ \E t \in Threads : Rand_write2(t)
  \/ \E t \in Threads : Rand_output(t)
  \/ \E t \in Threads : Rand_aesenc(t)

Spec == Init /\ [][Next]_vars

----------------------------------------------------------------------------
(* Properties *)

Returned(name) == pc = "returned" /\ op = name

\* the build compiles the hand-written branch of a function that dispatches
\* on __AVX2__ and then on the SSE macro sse
PlainPath(sse) == "__AVX2__" \notin defined /\ sse \notin defined

\* a value reduced modulo 2^16 into the signed 16-bit range
Wrap16(v) ==
  LET r == v % 65536 IN IF r >= 32768 THEN r - 65536 ELSE r

\* what the instruction of the AVX2 branch computes on the operands of the call
NativeResult ==
  CASE op = "m256_hadd_epi16" -> Store16(mm256_hadd_epi16(Load16(a), Load16(b)))
    [] op = "m256_cmpgt_epi16" -> Store16(mm_cmpgt_epi16(Load16(a), Load16(b)))
    [] op = "m256_sign_epi16" -> Store16(mm_sign_epi16(Load16(a), Load16(b)))
    [] op = "m256_abs_epi16" -> Store16(mm_abs_epi16(Load16(a)))
    [] op = "m256_permute4x64_epi64" -> mm256_permute4x64_epi64(a, imm)
    [] op = "m256_permute4x64_epi16" ->
         Store64As16(mm256_permute4x64_epi64(Load16As64(a), imm))
    [] op = "m256_broadcastsi128_si256" -> BytesAsInt16(mm256_broadcastsi128_si256(a))

\* what the hand-written branch computes on the operands of the call
PortableResult ==
  CASE op = "m256_hadd_epi16" -> m256_hadd_epi16_plain(a, b)
    [] op = "m256_cmpgt_epi16" -> m256_cmpgt_epi16_plain(a, b)
    [] op = "m256_sign_epi16" -> m256_sign_epi16_plain(a, b)
    [] op = "m256_abs_epi16" -> m256_abs_epi16_plain(a)
    [] op = "m256_permute4x64_epi64" -> m256_permute4x64_epi64_plain(a, imm)
    [] op = "m256_permute4x64_epi16" -> m256_permute4x64_epi16_plain(a, imm)
    [] op = "m256_broadcastsi128_si256" -> m256_broadcastsi128_si256_plain(a)

DispatchedOps ==
  { "m256_hadd_epi16", "m256_cmpgt_epi16", "m256_sign_epi16", "m256_abs_epi16",
    "m256_permute4x64_epi64", "m256_permute4x64_epi16", "m256_broadcastsi128_si256" }

\* C1: for hadd, cmpgt, sign, abs, both permutes and broadcast, the
\* hand-written branch computes, on every operand (and selector), exactly
\* the output of the instruction the AVX2 branch delegates to, and so does
\* whichever branch the build compiled.
C1_PortableMatchesNative ==
  (pc = "returned" /\ op \in DispatchedOps) =>
     /\ PortableResult = NativeResult
     /\ c = NativeResult

\* a hand-written sign_epi16 negated the most negative lane as the instruction does
C1_Witness ==
  /\ Returned("m256_sign_epi16")
  /\ PlainPath("__SSE3__")
  /\ \E i \in 0..15 : a[i] = -32768 /\ b[i] < 0 /\ c[i] = -32768

\* C2 (as claimed): on the hand-written branch of m256_shuffle_epi8, an
\* output byte whose control byte has its top bit set is 0.
C2_FlaggedByteIsZero ==
  (Returned("m256_shuffle_epi8") /\ PlainPath("__SSE3__")) =>
     \A i \in 0..31 : ToUint8(b[i]) >= 128 => c[i] = 0

\* C3 (as claimed): on the hand-written branch of m256_shuffle_epi8, an
\* output byte whose control byte has its top bit clear is a copy of the
\* byte of the same 16-byte half of a that the low 4 control bits select.
C3_UnflaggedByteIsCopy ==
  (Returned("m256_shuffle_epi8") /\ PlainPath("__SSE3__")) =>
     \A i \in 0..31 :
        ToUint8(b[i]) < 128 => c[i] = a[16 * (i \div 16) + (ToUint8(b[i]) % 16)]

\* C4 (as claimed): m256_shuffle_epi8 returns the same 32 bytes under the
\* AVX2 branch, the two-shuffle SSE branch and the hand-written loop.
C4_ShuffleSameOnEveryBuild ==
  Returned("m256_shuffle_epi8") =>
     c = Store8(mm256_shuffle_epi8(Load8(a), Load8(b)))

AsUnsigned16(v) == IF v < 0 THEN v + 65536 ELSE v
AsSigned16(u) == IF u >= 32768 THEN u - 65536 ELSE u

\* C8: for n in 0..16, m256_srli_epi16<n> gives the pattern of the lane read
\* as unsigned, divided by 2^n, read back as signed; for a negative lane and
\* n in 1..16 the result is non-negative and differs from the sign-extending
\* shift (the floor of v / 2^n); lane -1 shifted by 1 gives 0x7FFF.
C8_SrliLogical ==
  (Returned("m256_srli_epi16") /\ imm \in 0..16) =>
     \A i \in 0..15 :
        /\ c[i] = AsSigned16(AsUnsigned16(a[i]) \div (2 ^ imm))
        /\ (a[i] < 0 /\ imm >= 1) => (c[i] >= 0 /\ c[i] # a[i] \div (2 ^ imm))
        /\ (a[i] = -1 /\ imm = 1) => c[i] = 32767

\* the regression case: lane -1 shifted right by 1
C8_Witness ==
  /\ Returned("m256_srli_epi16")
  /\ imm = 1
  /\ \E i \in 0..15 : a[i] = -1 /\ c[i] = 32767
  /\ \E i \in 0..15 : a[i] = -32768 /\ c[i] = 16384

\* C9: for n in 0..16, m256_slli_epi16<n> gives (v * 2^n) modulo 2^16 read
\* as a signed 16-bit value, negative lanes included.
C9_SlliDiscards ==
  (Returned("m256_slli_epi16") /\ imm \in 0..16) =>
     \A i \in 0..15 : c[i] = AsSigned16((a[i] * (2 ^ imm)) % 65536)

\* a left shift that discarded bits of a negative and of a positive lane
C9_Witness ==
  /\ Returned("m256_slli_epi16")
  /\ imm = 3
  /\ \E i \in 0..15 : a[i] = 12345 /\ c[i] = -32312
  /\ \E i \in 0..15 : a[i] = -32768 /\ c[i] = 0
  /\ \E i \in 0..15 : a[i] = -2 /\ c[i] = -16

\* field k (bits 2k+1..2k) of the 8-bit pattern of a selector
SelectorField(imm8, k) == ((IF imm8 < 0 THEN imm8 + 256 ELSE imm8) \div (4 ^ k)) % 4

\* C10: for every 8-bit selector pattern and every input, lane k of the
\* output of m256_permute4x64_epi64 is lane f_k of the input.
C10_Permute64 ==
  Returned("m256_permute4x64_epi64") =>
     \A k \in 0..3 : c[k] = a[SelectorField(imm, k)]

\* a hand-written permute under a selector that is negative as int8_t and
\* moves every lane
C10_Witness ==
  /\ Returned("m256_permute4x64_epi64")
  /\ "__AVX2__" \notin defined
  /\ imm = -101
  /\ c = [k \in 0..3 |-> a[ <<3, 2, 1, 2>>[k + 1] ]]
  /\ \A k \in 0..3 : c[k] # a[k]

\* C11: for every 8-bit selector pattern and every 16-lane input, lane 4k+j
\* of the output of m256_permute4x64_epi16 is lane 4*f_k + j of the input:
\* each group of four lanes is copied as a block, its order kept.
C11_Permute16 ==
  Returned("m256_permute4x64_epi16") =>
     \A k \in 0..3 : \A j \in 0..3 :
        c[4 * k + j] = a[4 * SelectorField(imm, k) + j]

\* a hand-written 16-lane permute under a selector that is negative as int8_t
\* and moves every group, each group arriving with its four lanes in order
C11_Witness ==
  /\ Returned("m256_permute4x64_epi16")
  /\ "__AVX2__" \notin defined
  /\ imm = -101
  /\ \A j \in 0..3 :
        /\ c[j] = a[12 + j]
        /\ c[4 + j] = a[8 + j]
        /\ c[8 + j] = a[4 + j]
        /\ c[12 + j] = a[8 + j]
  /\ \A k \in 0..3 : \E j \in 0..3 : c[4 * k + j] # a[4 * k + j]
  /\ \E j \in 0..2 : c[j] # c[j + 1]

\* C12: on the hand-written branch of m256_cmpgt_epi16, an output lane has
\* all 16 bits set (it is -1) when a[i] > b[i] as signed integers and is 0
\* otherwise, so every output lane is 0 or -1.
C12_CmpgtPortable ==
  (Returned("m256_cmpgt_epi16") /\ PlainPath("__SSE2__")) =>
     \A i \in 0..15 :
        /\ c[i] = (IF a[i] > b[i] THEN -1 ELSE 0)
        /\ c[i] \in {0, -1}
        /\ AsUnsigned16(c[i]) \in {0, 65535}

\* a hand-written compare that saw a greater, an equal and a smaller lane,
\* and a pair whose order differs when the lanes are read as unsigned
C12_Witness ==
  /\ Returned("m256_cmpgt_epi16")
  /\ PlainPath("__SSE2__")
  /\ \E i \in 0..15 : a[i] > b[i] /\ c[i] = -1
  /\ \E i \in 0..15 : a[i] = b[i] /\ c[i] = 0
  /\ \E i \in 0..15 : a[i] < b[i] /\ c[i] = 0
  /\ \E i \in 0..15 : a[i] > 0 /\ b[i] < 0 /\ c[i] = -1

\* C13: every output lane of m256_add_epi16 is a[i] + b[i], and of
\* m256_sub_epi16 a[i] - b[i], reduced modulo 2^16 into the signed 16-bit
\* range (not clamped), a function of lane i of the operands alone.
C13_AddSubWrap ==
  /\ Returned("m256_add_epi16") => \A i \in 0..15 : c[i] = Wrap16(a[i] + b[i])
  /\ Returned("m256_sub_epi16") => \A i \in 0..15 : c[i] = Wrap16(a[i] - b[i])

\* an addition with a lane that overflowed upwards, a lane that overflowed
\* downwards and a lane that did not overflow
C13_Witness ==
  /\ Returned("m256_add_epi16")
  /\ \E i \in 0..15 : a[i] + b[i] > 32767 /\ c[i] = a[i] + b[i] - 65536
  /\ \E i \in 0..15 : a[i] + b[i] < -32768 /\ c[i] = a[i] + b[i] + 65536
  /\ \E i \in 0..15 : a[i] # 0 /\ b[i] # 0 /\ c[i] = a[i] + b[i]

\* bit p (0..63) of an int64_t lane
Bit64(lane, p) == (lane[(p \div 16) + 1] \div (2 ^ (p % 16))) % 2

\* C14: for every pair of operands the operation accepts and every lane i in
\* 0..3, each of the 64 bits of the output lane of m256_and_epi64,
\* m256_or_epi64 and m256_xor_epi64 is the and, the or and the exclusive or
\* of the same bit of a[i] and of b[i].
C14_BitwiseLanes ==
  /\ Returned("m256_and_epi64") =>
       \A i \in 0..3 : \A p \in 0..63 :
          Bit64(c[i], p) = Bit64(a[i], p) * Bit64(b[i], p)
  /\ Returned("m256_or_epi64") =>
       \A i \in 0..3 : \A p \in 0..63 :
          Bit64(c[i], p) = (IF Bit64(a[i], p) + Bit64(b[i], p) > 0 THEN 1 ELSE 0)
  /\ Returned("m256_xor_epi64") =>
       \A i \in 0..3 : \A p \in 0..63 :
          Bit64(c[i], p) = (Bit64(a[i], p) + Bit64(b[i], p)) % 2

\* an and, in a build that checks its asserts, whose result is neither
\* operand and not zero in any lane
C14_Witness ==
  /\ Returned("m256_and_epi64")
  /\ "NDEBUG" \notin defined
  /\ \A i \in 0..3 :
        /\ c[i] # a[i]
        /\ c[i] # b[i]
        /\ \E p \in 0..63 : Bit64(c[i], p) = 1

\* the functions whose body begins with assert(a != b)
AssertingOps ==
  { "m256_and_epi64", "m256_or_epi64", "m256_cmpgt_epi16", "m256_shuffle_epi8",
    "m256_sign_epi16" }

LehmerPath == "__AES_NI__" \notin defined

\* thread t has returned from a call of get_randomness and is not in another
Completed(t) == pc = "rand" /\ tpc[t] = "idle" /\ Len(outs[t]) > 0

\* the value the last completed call of thread t returned
LastOut(t) == outs[t][Len(outs[t])]

\* the accumulators of thread t as its last call found and as it left them
AccumulatorsAround(t) ==
  { entry[t].gstate_1, entry[t].gstate_2, gstate[t].gstate_1, gstate[t].gstate_2 }

\* a 128-bit value below 2^32, as the test draws its accumulators
Below32(g) == \A i \in 5..16 : g[i] = 0

C17_BothAccumulatorsChange ==
  \A t \in Threads :
     (Completed(t) /\ LehmerPath) =>
       /\ gstate[t].gstate_1 # entry[t].gstate_1
       /\ gstate[t].gstate_2 # entry[t].gstate_2

\* a 128-bit value that is a multiple of 2^126: 0, 2^126, 2^127 or 3 * 2^126
MultipleOfTwoTo126(g) == (\A i \in 1..15 : g[i] = 0) /\ g[16] % 64 = 0

\* C17 (amended): on the Lehmer branch a call replaces each accumulator by
\* its product with 0xda942042e4dd85b5 modulo 2^128, which differs from the
\* accumulator exactly when the accumulator is not a multiple of 2^126; an
\* accumulator that is 0 stays 0.
C17_AccumulatorChangesUnlessFixed ==
  \A t \in Threads :
     (Completed(t) /\ LehmerPath) =>
       /\ gstate[t].gstate_1 = Mul128(entry[t].gstate_1, LehmerMultiplier)
       /\ gstate[t].gstate_2 = Mul128(entry[t].gstate_2, LehmerMultiplier)
       /\ gstate[t].gstate_1 = entry[t].gstate_1 <=> MultipleOfTwoTo126(entry[t].gstate_1)
       /\ gstate[t].gstate_2 = entry[t].gstate_2 <=> MultipleOfTwoTo126(entry[t].gstate_2)

\* the second call from the first two values of rand(): both accumulators
\* moved again, gstate_1 to 0x57119c7afec4b0935d059007cac6d82f
C17_Witness ==
  /\ Completed(1)
  /\ LehmerPath
  /\ Len(outs[1]) = 2
  /\ seed[1] = Pair(FromUnsigned(1804289383), FromUnsigned(846930886))
  /\ gstate[1].gstate_1 =
       <<47, 216, 198, 202, 7, 144, 5, 93, 147, 176, 196, 254, 122, 156, 17, 87>>
  /\ gstate[1].gstate_1 # entry[1].gstate_1
  /\ gstate[1].gstate_2 # entry[1].gstate_2

\* C18: for every 128-bit value and under every build, the one without
\* __AVX2__ and __SSE2__ included, lanes 0..7 of m256_broadcastsi128_si256
\* are the eight 16-bit chunks of the value, least significant first, lane
\* i + 8 equals lane i, and all 16 lanes are written.
C18_BroadcastBothHalves ==
  Returned("m256_broadcastsi128_si256") =>
     /\ DOMAIN c = 0..15
     /\ \A i \in 0..7 :
          /\ c[i] = AsSigned16(a[2 * i] + 256 * a[2 * i + 1])
          /\ c[i + 8] = c[i]

\* a broadcast through the two memcpy calls, of a value whose chunks are not
\* all equal and whose highest chunk is not zero
C18_Witness ==
  /\ Returned("m256_broadcastsi128_si256")
  /\ PlainPath("__SSE2__")
  /\ c[15] # 0
  /\ c[15] = c[7]
  /\ c[8] = c[0]
  /\ c[8] # c[7]

\* the accumulators and outputs of n calls made in sequence, with nothing
\* else running, from the pair g, on the Lehmer branch (aes = FALSE) or on the
\* __AES_NI__ branch (aes = TRUE)
RECURSIVE RunSequence(_, _, _)
RunSequence(aes, g, n) ==
  IF n = 0 THEN [gstate_1 |-> g.gstate_1, gstate_2 |-> g.gstate_2, outs |-> <<>>]
  ELSE LET before == RunSequence(aes, g, n - 1)
           call == IF aes THEN get_randomness_aes(before) ELSE get_randomness_lehmer(before)
       IN  [gstate_1 |-> call.gstate_1, gstate_2 |-> call.gstate_2,
            outs |-> Append(before.outs, call.out)]

\* the runs alone of every seed, for every number of calls a thread can make
RunsAlone ==
  [aes \in BOOLEAN |->
     [g \in RandSeeds \cup RandSeedsOther |->
        [n \in 0..(MaxCalls + 1) |-> RunSequence(aes, g, n)]]]

RunAlone(g, n) == RunsAlone["__AES_NI__" \in defined][g][n]

\* C19: two threads call get_randomness repeatedly, each on its own pair,
\* their loads, stores and output steps interleaved in any order; at every
\* point the outputs a thread has obtained are those of the same number of
\* calls run alone from its seed, and its accumulators are those of the run
\* alone, with the stores already made by the call in progress applied.
C19_ThreadsDoNotInterfere ==
  pc = "rand" =>
    \A t \in Threads :
       LET n == Len(outs[t])
           now == RunAlone(seed[t], n)
           next == RunAlone(seed[t], n + 1)
       IN  /\ outs[t] = now.outs
           /\ gstate[t].gstate_1 =
                (IF tpc[t] \in {"idle", "write1"} THEN now.gstate_1 ELSE next.gstate_1)
           /\ gstate[t].gstate_2 =
                (IF tpc[t] \in {"idle", "write1", "read2", "write2"}
                   THEN now.gstate_2 ELSE next.gstate_2)

\* both threads in the middle of their second call, one between its two
\* updates and the other about to store its second, from different seeds
C19_Witness ==
  /\ pc = "rand"
  /\ LehmerPath
  /\ seed[1] # seed[2]
  /\ seed[1].gstate_1 # FromUnsigned(0)
  /\ Len(outs[1]) = 1
  /\ Len(outs[2]) = 1
  /\ outs[1] # outs[2]
  /\ tpc[1] = "read2"
  /\ tpc[2] = "write2"

\* C20: m256_xor_epi64 given the same sequence as both operands ends in no
\* assertion failure, in any build, and returns the all-zero sequence.
C20_XorSelfIsZero ==
  (pc # "start" /\ op = "m256_xor_epi64" /\ a = b) =>
     /\ pc = "returned"
     /\ \A i \in 0..3 : c[i] = <<0, 0, 0, 0>>

\* an exclusive or of a sequence with itself, no lane of it zero, in a build
\* that checks its asserts
C20_Witness ==
  /\ Returned("m256_xor_epi64")
  /\ "NDEBUG" \notin defined
  /\ a = b
  /\ \A i \in 0..3 : a[i] # <<0, 0, 0, 0>>
  /\ \A i \in 0..3 : c[i] = <<0, 0, 0, 0>>

\* C21: a shift by 0 is the identity: for every 16-lane input a,
\* m256_slli_epi16<0>(a) = a and m256_srli_epi16<0>(a) = a, negative lanes
\* included.
C21_ShiftByZeroIsIdentity ==
  (pc = "returned" /\ op \in {"m256_slli_epi16", "m256_srli_epi16"} /\ imm = 0) =>
     c = a

\* a left shift by 0 that returned its input, which holds negative lanes
C21_Witness ==
  /\ Returned("m256_slli_epi16")
  /\ imm = 0
  /\ \E i \in 0..15 : a[i] = -32768
  /\ \E i \in 0..15 : a[i] = -1
  /\ c = a

\* the four fields that the hand-written permutes decode from a selector
PermuteFields(imm8) ==
  <<permute_zero(imm8), permute_first(imm8), permute_second(imm8), permute_third(imm8)>>

\* C22: for every 8-bit selector pattern, each of the four fields decoded
\* with the pair masks and pair shifts lies in [0,4), so the static range
\* checks of both permute variants hold (no selector is refused by them) and
\* every lane index they read (the field, respectively 4 * field + j with j
\* in 0..3) is inside the input sequence.
C22_PermuteFieldsInRange ==
  /\ pc = "start" =>
        \A imm8 \in Selectors :
           /\ \A k \in 1..4 : PermuteFields(imm8)[k] \in 0..3
           /\ permute4x64_epi64_static_asserts(imm8)
           /\ permute4x64_epi16_static_asserts(imm8)
  /\ (Returned("m256_permute4x64_epi64") /\ "__AVX2__" \notin defined) =>
        \A k \in 1..4 : PermuteFields(imm)[k] \in DOMAIN a
  /\ (Returned("m256_permute4x64_epi16") /\ "__AVX2__" \notin defined) =>
        \A k \in 1..4 : \A j \in 0..3 : 4 * PermuteFields(imm)[k] + j \in DOMAIN a

\* a hand-written 16-lane permute under the selector whose four fields are
\* all 3: it read up to the last lane of its input
C22_Witness ==
  /\ Returned("m256_permute4x64_epi16")
  /\ "__AVX2__" \notin defined
  /\ imm = -1
  /\ PermuteFields(imm) = <<3, 3, 3, 3>>
  /\ \A k \in 0..3 : \A j \in 0..3 : c[4 * k + j] = a[12 + j]
  /\ c[15] = a[15]

\* the 32 bytes that hold x on the 16-byte half h (0 or 1) and y on the other
Splice(h, x, y) == [j \in 0..31 |-> IF j \div 16 = h THEN x[j] ELSE y[j]]

\* contents for the half that a second call does not share with the first
OtherHalves == { Ramp32(s) : s \in 0..MaxOther }

\* C23: the hand-written m256_shuffle_epi8 is local to each 16-byte half:
\* every source index it reads is in 0..15 for output bytes 0..15 and in
\* 16..31 for output bytes 16..31, and a second call whose a and b agree with
\* those of the first on one half returns an output that agrees with the
\* first on that half, whatever the other half holds.
C23_ShuffleLocalToHalf ==
  (Returned("m256_shuffle_epi8") /\ PlainPath("__SSE3__")) =>
     /\ \A i \in 0..15 :
           /\ shuffle_pos(b[i]) \in 0..15
           /\ shuffle_pos(b[i + 16]) + 16 \in 16..31
     /\ \A h \in {0, 1} : \A x \in OtherHalves, y \in OtherHalves :
           \A j \in 0..15 :
              m256_shuffle_epi8_plain(Splice(h, a, x), Splice(h, b, y))[16 * h + j]
                = c[16 * h + j]

\* a hand-written shuffle whose output is not constant on either half, and a
\* second call that shares only the upper half with it and differs from it on
\* the lower half of the output
C23_Witness ==
  /\ Returned("m256_shuffle_epi8")
  /\ PlainPath("__SSE3__")
  /\ \E i \in 0..15 : c[i] # c[0]
  /\ \E i \in 16..31 : c[i] # c[16]
  /\ \E x \in OtherHalves, y \in OtherHalves :
        \E j \in 0..15 :
           m256_shuffle_epi8_plain(Splice(1, a, x), Splice(1, b, y))[j] # c[j]

\* every value of an int16_t
Int16Range == -32768..32767

\* (0 < v) - (v < 0) with v widened to a 32-bit int before the comparisons
SignumWide(v) == BoolToInt(0 < v) - BoolToInt(v < 0)

C25_Permute16IsPermute64 ==
  Returned("m256_permute4x64_epi16") =>
     c = Store64As16(m256_permute4x64_epi64(Load16As64(a), imm))

\* a hand-written 16-lane permute that reversed the order of the four
\* groups, as the 64-bit permute does on the packed lanes
C25_Witness ==
  /\ Returned("m256_permute4x64_epi16")
  /\ "__AVX2__" \notin defined
  /\ imm = 27
  /\ \A i \in 0..15 : c[i] = a[4 * (3 - (i \div 4)) + (i % 4)]
  /\ \A k \in 0..3 : Load16As64(c)[k] = Load16As64(a)[3 - k]
  /\ \A k \in 0..3 : Load16As64(c)[k] # Load16As64(a)[k]

\* C26 (as claimed): for every compile-time shift amount n >= 16 and every
\* 16-lane input, m256_slli_epi16<n> and m256_srli_epi16<n> return all-zero
\* lanes.
C26_WideShiftIsZero ==
  (pc = "returned" /\ op \in {"m256_slli_epi16", "m256_srli_epi16"} /\ imm >= 16) =>
     \A i \in 0..15 : c[i] = 0

\* a 128-bit value whose low 64 bits are a multiple of 2^62
LowHalfMultipleOfTwoTo62(g) == (\A i \in 1..7 : g[i] = 0) /\ g[8] % 64 = 0

\* C27 (as claimed): on the Lehmer branch the output does not repeat in
\* short order: from every accumulator pair, two consecutive calls of a
\* thread return different values.
C27_ConsecutiveOutputsDiffer ==
  \A t \in Threads :
     (pc = "rand" /\ LehmerPath) =>
        \A k \in 1..(Len(outs[t]) - 1) : outs[t][k] # outs[t][k + 1]

\* C27 (amended): each call returns the low 64 bits of the updated gstate_1
\* in the high half and the high 64 bits of the updated gstate_2 in the low
\* half; two consecutive calls return values with different high halves
\* whenever the low 64 bits of gstate_1 are not a multiple of 2^62, and they
\* return the same value when those bits are such a multiple and gstate_2
\* is 0: from the pair (0, 0) every call returns 0.
C27_ConsecutiveOutputsDifferUnlessDegenerate ==
  \A t \in Threads :
     (pc = "rand" /\ LehmerPath) =>
        /\ Completed(t) =>
              LastOut(t) = SubSeq(gstate[t].gstate_2, 9, 16)
                             \o SubSeq(gstate[t].gstate_1, 1, 8)
        /\ \A k \in 1..(Len(outs[t]) - 1) :
              /\ ~LowHalfMultipleOfTwoTo62(seed[t].gstate_1) =>
                    SubSeq(outs[t][k], 9, 16) # SubSeq(outs[t][k + 1], 9, 16)
              /\ (LowHalfMultipleOfTwoTo62(seed[t].gstate_1)
                    /\ seed[t].gstate_2 = FromUnsigned(0)) =>
                    outs[t][k] = outs[t][k + 1]
              /\ seed[t] = Pair(FromUnsigned(0), FromUnsigned(0)) =>
                    outs[t][k] = FromUnsigned(0)

\* two consecutive calls from the first two values of rand(): the second
\* returned 0x5d059007cac6d82f3c574b3a2609bf6d, the first another value
C27_Witness ==
  /\ Completed(1)
  /\ LehmerPath
  /\ seed[1] = Pair(FromUnsigned(1804289383), FromUnsigned(846930886))
  /\ Len(outs[1]) = 2
  /\ outs[1][1] = <<3, 18, 26, 43, 0, 0, 0, 0, 211, 148, 113, 10, 196, 221, 69, 88>>
  /\ outs[1][2] = <<109, 191, 9, 38, 58, 75, 87, 60, 47, 216, 198, 202, 7, 144, 5, 93>>

\* C28 (as claimed): under the __AES_NI__ branch get_randomness also mutates
\* both accumulators on each call, so that a second call on the same
\* accumulator variables starts from a different state than the first.
C28_AesMutatesAccumulators ==
  \A t \in Threads :
     (pc = "rand" /\ "__AES_NI__" \in defined /\ Len(outs[t]) > 0) =>
        /\ gstate[t].gstate_1 # entry[t].gstate_1
        /\ gstate[t].gstate_2 # entry[t].gstate_2
        /\ gstate[t] # seed[t]

\* the position of the lowest set bit of a non-zero 8-bit mask
LowestSetBit(mask) ==
  CHOOSE p \in 0..7 :
     /\ (mask \div (2 ^ p)) % 2 = 1
     /\ \A q \in 0..(p - 1) : (mask \div (2 ^ q)) % 2 = 0

\* the sub-field of the 8-bit pattern of v that is width bits wide and has
\* the ordinal ord among the sub-fields of that width
SubField(v, width, ord) == (ToUint8(v) \div (2 ^ (width * ord))) % (2 ^ width)

\* C29 (as claimed): every mask/shift pair of BitPatterns (the eight bit
\* pairs, the four 2-bit pair pairs, the two 4-bit quad pairs) is consistent:
\* for every 8-bit value v, here the selector that a permute decoded,
\* (v & mask) >> shift is the value of the named sub-field and lies in
\* [0, 2^width), with width 1, 2 or 4; each shift constant is the position of
\* the lowest set bit of its mask.
C29_BitPatternsConsistent ==
  (pc = "returned" /\ op \in {"m256_permute4x64_epi64", "m256_permute4x64_epi16"}) =>
     \A p \in BitPatternPairs :
        /\ ShiftRight(BitAnd(imm, p[1]), p[2]) = SubField(imm, p[3], p[4])
        /\ ShiftRight(BitAnd(imm, p[1]), p[2]) \in 0..((2 ^ p[3]) - 1)
        /\ p[2] = LowestSetBit(p[1])

\* the number of trailing zero bits of a 128-bit value, 128 for the value 0
TrailingZeroBits(g) ==
  IF \A i \in 1..16 : g[i] = 0 THEN 128
  ELSE LET i == CHOOSE i \in 1..16 : g[i] # 0 /\ \A j \in 1..(i - 1) : g[j] = 0
       IN 8 * (i - 1) + LowestSetBit(g[i])

\* the accumulators of the run: thread and name
Accumulators == Threads \X {"gstate_1", "gstate_2"}

\* both threads are between calls and have made the same number of calls
SameNumberOfCalls ==
  /\ \A t \in Threads : tpc[t] = "idle"
  /\ Len(outs[1]) = Len(outs[2])

\* C30: the Lehmer update of get_randomness is a bijection on 128-bit
\* accumulator values (the multiplier is odd): accumulators that started
\* distinct are distinct after the same number of calls, the number of
\* trailing zero bits of each accumulator never changes, and an accumulator
\* is zero after any sequence of calls if and only if it was zero initially.
C30_LehmerUpdateIsBijection ==
  (pc = "rand" /\ LehmerPath) =>
     /\ SameNumberOfCalls =>
           \A x \in Accumulators, y \in Accumulators :
              seed[x[1]][x[2]] # seed[y[1]][y[2]] =>
                 gstate[x[1]][x[2]] # gstate[y[1]][y[2]]
     /\ \A x \in Accumulators :
           /\ TrailingZeroBits(gstate[x[1]][x[2]]) = TrailingZeroBits(seed[x[1]][x[2]])
           /\ gstate[x[1]][x[2]] = FromUnsigned(0) <=> seed[x[1]][x[2]] = FromUnsigned(0)

\* both threads made two calls; thread 1 started from (0, 1), whose
\* gstate_1 is still 0 and whose gstate_2 is odd and has moved, thread 2 from
\* (2147483647, 2), whose gstate_2 still has exactly one trailing zero bit
C30_Witness ==
  /\ pc = "rand"
  /\ LehmerPath
  /\ SameNumberOfCalls
  /\ Len(outs[1]) = 2
  /\ seed[1] = Pair(FromUnsigned(0), FromUnsigned(1))
  /\ seed[2] = Pair(FromUnsigned(2147483647), FromUnsigned(2))
  /\ gstate[1].gstate_1 = FromUnsigned(0)
  /\ gstate[1].gstate_2 # seed[1].gstate_2
  /\ TrailingZeroBits(gstate[1].gstate_2) = 0
  /\ gstate[2].gstate_2 # seed[2].gstate_2
  /\ TrailingZeroBits(gstate[2].gstate_2) = 1
  /\ \A x \in Accumulators, y \in Accumulators :
        x # y => gstate[x[1]][x[2]] # gstate[y[1]][y[2]]

====
